---- MODULE Spec2Model ----
(***************************************************************************)
(* Model of main.py: the fetch -> process -> update workbook -> analyze    *)
(* pipeline, run forever by main() on a five minute timer.                 *)
(*                                                                         *)
(* A cell of a table is an option: <<>> is a missing value (NaN / None),   *)
(* <<v>> is the value v.  A raw record of the API is a function from the   *)
(* field names it carries to cells.                                        *)
(***************************************************************************)
EXTENDS Integers, Sequences, FiniteSets

VARIABLES
    pc,         \* position of the single thread of control
    attempts,   \* requests.get calls made by the current fetch_crypto_data call
    waits,      \* time.sleep(5) calls made by the current fetch_crypto_data call
    data,       \* main's local `data`
    df,         \* main's local `df`
    workbook,   \* contents of crypto_data.xlsx
    report,     \* contents of crypto_analysis.txt
    console,    \* lines printed since the current cycle began
    calls,      \* calls made since the current cycle began: function,
                \* argument, exception met inside ("" when none)
    body,       \* decoded body of the 2xx response of this cycle, if any
    wbAtCycle,  \* workbook as it was when the current cycle began
    repAtCycle  \* report file as it was when the current cycle began

vars == <<pc, attempts, waits, data, df, workbook, report, console, calls,
          body, wbAtCycle, repAtCycle>>

----------------------------------------------------------------------------
(* Bounds of the model *)

MaxRows == 2

----------------------------------------------------------------------------
(* Program constants *)

MaxAttempts == 3

TopN == 5

Columns ==
    <<"name", "symbol", "current_price", "market_cap", "total_volume",
      "price_change_percentage_24h">>

SheetName == "Live Data"

----------------------------------------------------------------------------
(* The environment: what the API can answer, how a request can fail *)

Missing == <<>>

Some(v) == <<v>>

\* Two per-asset objects as the API may send them.  Both carry a field the
\* program does not use; the second lacks the 24h change and has a null price.
RawRecords ==
    { [f \in {"id", "name", "symbol", "current_price", "market_cap",
              "total_volume", "price_change_percentage_24h"} |->
          CASE f = "id" -> Some("bitcoin")
            [] f = "name" -> Some("Bitcoin")
            [] f = "symbol" -> Some("btc")
            [] f = "current_price" -> Some(3)
            [] f = "market_cap" -> Some(100)
            [] f = "total_volume" -> Some(7)
            [] f = "price_change_percentage_24h" -> Some(-2)],
      [f \in {"id", "name", "symbol", "current_price", "market_cap",
              "total_volume"} |->
          CASE f = "id" -> Some("ethereum")
            [] f = "name" -> Some("Ethereum")
            [] f = "symbol" -> Some("eth")
            [] f = "current_price" -> Missing
            [] f = "market_cap" -> Some(300)
            [] f = "total_volume" -> Some(4)] }

RECURSIVE SeqsUpTo(_, _)
SeqsUpTo(S, n) ==
    IF n = 0 THEN { <<>> }
    ELSE LET shorter == SeqsUpTo(S, n - 1)
         IN  shorter \cup { Append(s, x) : s \in { t \in shorter : Len(t) = n - 1 }, x \in S }

\* Decoded bodies of a 2xx response: a JSON array of per-asset objects.
Payloads == SeqsUpTo(RawRecords, MaxRows)

\* Subclasses of requests.RequestException raised by get / raise_for_status.
RequestFailures == {"ConnectionError", "HTTPError"}

----------------------------------------------------------------------------
(* process_data *)

ColumnSet == { Columns[i] : i \in 1..Len(Columns) }

EmptyFrame == [columns |-> Columns, rows |-> <<>>]

\* slip: records that lack a field are dropped instead of padded
process_data_dropna(raw) ==
    LET keep == { i \in 1..Len(raw) : ColumnSet \subseteq DOMAIN raw[i] }
        nth(k) == CHOOSE i \in keep : Cardinality({ j \in keep : j < i }) = k - 1
    IN  [columns |-> Columns,
         rows    |-> [k \in 1..Cardinality(keep) |->
                        [c \in ColumnSet |-> raw[nth(k)][c]]]]

process_data(raw) ==
    [columns |-> Columns,
     rows    |-> [i \in 1..Len(raw) |->
                    [c \in ColumnSet |->
                        IF c \in DOMAIN raw[i] THEN raw[i][c] ELSE Missing]]]

\* slip: `if data is not None:`
Truthy_not_none(d) == TRUE

\* `if data:` in main
Truthy(d) == Len(d) > 0

----------------------------------------------------------------------------
(* update_excel *)

NoFile == [kind |-> "absent", sheets |-> <<>>]

Corrupt == [kind |-> "corrupt", sheets |-> <<>>]

Book(sheets) == [kind |-> "xlsx", sheets |-> sheets]

\* df.to_excel(writer, sheet_name=..., index=False): header row, then one row
\* of cells per record, in column order.
to_excel(frame) ==
    <<[j \in 1..Len(frame.columns) |-> Some(frame.columns[j])]>> \o
    [i \in 1..Len(frame.rows) |->
        [j \in 1..Len(frame.columns) |-> frame.rows[i][frame.columns[j]]]]

HasSheet(wb, name) == \E i \in 1..Len(wb.sheets) : wb.sheets[i].name = name

\* slip: mode="a" left out, the file is written afresh
AppendReplace_mode_w(wb, frame) ==
    Book(<<[name |-> SheetName, cells |-> to_excel(frame)]>>)

\* mode="a", if_sheet_exists="replace": the sheet of that name is replaced in
\* place, or appended when there is none; the other sheets are kept.
AppendReplace(wb, frame) ==
    IF HasSheet(wb, SheetName)
    THEN Book([i \in 1..Len(wb.sheets) |->
                 IF wb.sheets[i].name = SheetName
                 THEN [name |-> SheetName, cells |-> to_excel(frame)]
                 ELSE wb.sheets[i]])
    ELSE Book(Append(wb.sheets, [name |-> SheetName, cells |-> to_excel(frame)]))

\* default mode "w": a new workbook with the one sheet
CreateNew(frame) == Book(<<[name |-> SheetName, cells |-> to_excel(frame)]>>)

\* os.path.exists(file_name)
Exists(wb) == wb.kind # "absent"

WriteWorkbook(wb, frame) ==
    IF Exists(wb) THEN AppendReplace(wb, frame) ELSE CreateNew(frame)

----------------------------------------------------------------------------
(* analyze_data *)

Present(frame, c) == { i \in 1..Len(frame.rows) : frame.rows[i][c] # Missing }

Val(frame, i, c) == frame.rows[i][c][1]

\* df.nlargest(n, c): rows by descending c, ties in original order; rows
\* whose c is missing come last, in original order; the first n are kept.
Before(frame, c, i, j) ==
    IF i \in Present(frame, c)
    THEN IF j \in Present(frame, c)
         THEN Val(frame, i, c) > Val(frame, j, c)
              \/ (Val(frame, i, c) = Val(frame, j, c) /\ i < j)
         ELSE TRUE
    ELSE j \notin Present(frame, c) /\ i < j

nlargest(frame, n, c) ==
    LET N      == Len(frame.rows)
        pos(i) == 1 + Cardinality({ j \in 1..N : Before(frame, c, j, i) })
        k      == IF N < n THEN N ELSE n
    IN  [p \in 1..k |-> frame.rows[CHOOSE i \in 1..N : pos(i) = p]]

RECURSIVE SumOver(_, _, _)
SumOver(frame, c, S) ==
    IF S = {} THEN 0
    ELSE LET i == CHOOSE x \in S : TRUE
         IN  Val(frame, i, c) + SumOver(frame, c, S \ {i})

\* a / b for a >= 0, b > 0, rounded to the nearest integer, halves to even
RoundDiv(a, b) ==
    LET q == a \div b
        r == a % b
    IN  IF 2 * r > b \/ (2 * r = b /\ q % 2 = 1) THEN q + 1 ELSE q

\* df[c].mean() as printed by :.2f, in hundredths; Missing prints "nan"
mean2f(frame, c) ==
    LET S == Present(frame, c)
    IN  IF S = {} THEN Missing
        ELSE Some(RoundDiv(100 * SumOver(frame, c, S), Cardinality(S)))

\* df[c].idxmax() / idxmin(): the first row holding the extreme value
idxmax(frame, c) ==
    CHOOSE i \in Present(frame, c) :
        /\ \A j \in Present(frame, c) : Val(frame, j, c) <= Val(frame, i, c)
        /\ \A j \in Present(frame, c) : Val(frame, j, c) = Val(frame, i, c) => i <= j

idxmin(frame, c) ==
    CHOOSE i \in Present(frame, c) :
        /\ \A j \in Present(frame, c) : Val(frame, j, c) >= Val(frame, i, c)
        /\ \A j \in Present(frame, c) : Val(frame, j, c) = Val(frame, i, c) => i <= j

\* idxmax / idxmin over a column with no value does not give a row label:
\* the lookup df.loc[...] raises
ExtremaDefined(frame) == Present(frame, "price_change_percentage_24h") # {}

NoReport == [kind |-> "absent", top_5 |-> <<>>, avg_price |-> Missing,
             highest_change |-> Missing, lowest_change |-> Missing]

\* the file as open(..., "w") leaves it when nothing gets written
EmptyReport == [kind |-> "empty", top_5 |-> <<>>, avg_price |-> Missing,
                highest_change |-> Missing, lowest_change |-> Missing]

Mover(frame, i) ==
    Some([name |-> frame.rows[i]["name"],
          change |-> Val(frame, i, "price_change_percentage_24h")])

ReportOf(frame) ==
    LET top == nlargest(frame, TopN, "market_cap")
    IN  [kind           |-> "text",
         top_5          |-> [p \in 1..Len(top) |->
                               [name |-> top[p]["name"],
                                market_cap |-> top[p]["market_cap"]]],
         avg_price      |-> mean2f(frame, "current_price"),
         highest_change |-> Mover(frame, idxmax(frame, "price_change_percentage_24h")),
         lowest_change  |-> Mover(frame, idxmin(frame, "price_change_percentage_24h"))]

----------------------------------------------------------------------------
(* Console lines and the call record *)

Line(tag, detail) == <<tag, detail>>

Call(fn, arg, exc) == [fn |-> fn, arg |-> arg, exc |-> exc]

Count(seq, tag) == Cardinality({ i \in 1..Len(seq) : seq[i][1] = tag })

Called(fn) == \E i \in 1..Len(calls) : calls[i].fn = fn

----------------------------------------------------------------------------
(* Initial state: main() is entered; the two files are as an earlier run or
   the user left them *)

StaleSheet == [name |-> SheetName, cells |-> <<<<Some("name")>>, <<Some("Dogecoin")>>>>]

NotesSheet == [name |-> "Notes", cells |-> <<<<Some("bought 2 btc")>>>>]

InitWorkbooks ==
    { NoFile,
      Book(<<NotesSheet>>),
      Book(<<StaleSheet, NotesSheet>>),
      Book(<<NotesSheet, StaleSheet>>) }

Init ==
    /\ pc = "main_75"
    /\ attempts = 0
    /\ waits = 0
    /\ data = <<>>
    /\ df = EmptyFrame
    /\ workbook \in InitWorkbooks
    /\ report = NoReport
    /\ console = <<>>
    /\ calls = <<>>
    /\ body = Missing
    /\ wbAtCycle = workbook
    /\ repAtCycle = report

----------------------------------------------------------------------------
(* fetch_crypto_data *)

\* slip: range(2)
RangeExhausted_early(n) == n >= MaxAttempts - 1

\* `for _ in range(3)` has no iteration left after n of them
RangeExhausted(n) == n >= MaxAttempts

\* main, lines 75-76: a cycle begins and calls fetch_crypto_data
main_begin_cycle ==
    /\ pc = "main_75"
    /\ pc' = "fetch_19"
    /\ console' = <<Line("fetching", "")>>
    /\ calls' = <<Call("fetch_crypto_data", <<>>, "")>>
    /\ body' = Missing
    /\ attempts' = 0
    /\ waits' = 0
    /\ wbAtCycle' = workbook
    /\ repAtCycle' = report
    /\ UNCHANGED <<data, df, workbook, report>>

\* slip: the sleep sits in a `finally:` and also runs on the way out
fetch_returns_finally_sleep(payload) ==
    /\ pc = "fetch_19"
    /\ ~RangeExhausted(attempts)
    /\ attempts' = attempts + 1
    /\ body' = Some(payload)
    /\ data' = payload
    /\ waits' = waits + 1
    /\ pc' = "main_77"
    /\ UNCHANGED <<df, workbook, report, console, calls, wbAtCycle, repAtCycle>>

\* lines 20-22: the request succeeds and its decoded body is returned
fetch_returns(payload) ==
    /\ pc = "fetch_19"
    /\ ~RangeExhausted(attempts)
    /\ attempts' = attempts + 1
    /\ body' = Some(payload)
    /\ data' = payload
    /\ pc' = "main_77"
    /\ UNCHANGED <<waits, df, workbook, report, console, calls, wbAtCycle, repAtCycle>>

\* slip: the handler sleeps only when another attempt is to follow
fetch_fails_sleep_before_retry(e) ==
    /\ pc = "fetch_19"
    /\ ~RangeExhausted(attempts)
    /\ attempts' = attempts + 1
    /\ console' = Append(console, Line("error_fetching", e))
    /\ waits' = IF RangeExhausted(attempts + 1) THEN waits ELSE waits + 1
    /\ pc' = "fetch_19"
    /\ UNCHANGED <<data, df, workbook, report, calls, body, wbAtCycle, repAtCycle>>

\* lines 20-25: the request fails; the handler prints and sleeps 5 seconds
fetch_fails(e) ==
    /\ pc = "fetch_19"
    /\ ~RangeExhausted(attempts)
    /\ attempts' = attempts + 1
    /\ console' = Append(console, Line("error_fetching", e))
    /\ waits' = waits + 1
    /\ pc' = "fetch_19"
    /\ UNCHANGED <<data, df, workbook, report, calls, body, wbAtCycle, repAtCycle>>

\* lines 26-27: the range is used up
fetch_gives_up ==
    /\ pc = "fetch_19"
    /\ RangeExhausted(attempts)
    /\ console' = Append(console, Line("failed_after_3", ""))
    /\ data' = <<>>
    /\ pc' = "main_77"
    /\ UNCHANGED <<attempts, waits, df, workbook, report, calls, body, wbAtCycle, repAtCycle>>

----------------------------------------------------------------------------
(* main: the branch on data *)

\* lines 77-78
main_process ==
    /\ pc = "main_77"
    /\ Truthy(data)
    /\ df' = process_data(data)
    /\ calls' = Append(calls, Call("process_data", data, ""))
    /\ pc' = "main_79"
    /\ UNCHANGED <<attempts, waits, data, workbook, report, console, body, wbAtCycle, repAtCycle>>

\* lines 81-82
main_skip ==
    /\ pc = "main_77"
    /\ ~Truthy(data)
    /\ console' = Append(console, Line("skipping", ""))
    /\ pc' = "main_83"
    /\ UNCHANGED <<attempts, waits, data, df, workbook, report, calls, body, wbAtCycle, repAtCycle>>

----------------------------------------------------------------------------
(* update_excel, called at line 79 *)

Confirmation == Line("excel_updated", "")

LockWarning == Line("excel_file_is_open", "")

\* slip: line 46 moved into the try block, printed on success only
UpdateOutput_on_success(exc) ==
    IF exc = "" THEN <<Confirmation>>
    ELSE IF exc = "PermissionError" THEN <<LockWarning>>
    ELSE <<Line("error_updating", exc)>>

\* what the except clauses and line 46 print, given the exception caught
\* ("" when none was raised)
UpdateOutput(exc) ==
    IF exc = "" THEN <<Confirmation>>
    ELSE IF exc = "PermissionError" THEN <<LockWarning, Confirmation>>
    ELSE <<Line("error_updating", exc), Confirmation>>

\* slip: the handler re-raises the PermissionError
AfterUpdate_uncaught(exc) == IF exc = "PermissionError" THEN "terminated" ELSE "main_80"

\* where main goes after update_excel, given the exception update_excel met
AfterUpdate(exc) == "main_80"

update_excel_returns(exc, wb) ==
    /\ pc = "main_79"
    /\ workbook' = wb
    /\ console' = console \o UpdateOutput(exc)
    /\ calls' = Append(calls, Call("update_excel", df, exc))
    /\ pc' = AfterUpdate(exc)
    /\ UNCHANGED <<attempts, waits, data, df, report, body, wbAtCycle, repAtCycle>>

\* lines 36-41 run to the end
update_excel_writes ==
    /\ workbook.kind # "corrupt"
    /\ update_excel_returns("", WriteWorkbook(workbook, df))

\* the file is held by another process: opening it raises PermissionError
update_excel_locked ==
    update_excel_returns("PermissionError", workbook)

\* any other failure of lines 36-41: an unreadable workbook, or an I/O error
\* that may strike after the file was opened for writing
update_excel_other_failure ==
    IF workbook.kind = "corrupt"
    THEN update_excel_returns("BadZipFile", workbook)
    ELSE \E wb \in {workbook, Corrupt} : update_excel_returns("OSError", wb)

----------------------------------------------------------------------------
(* analyze_data, called at line 80 *)

\* lines 50-70 run to the end
analyze_data_returns ==
    /\ pc = "main_80"
    /\ ExtremaDefined(df)
    /\ report' = ReportOf(df)
    /\ console' = Append(console, Line("report", ""))
    /\ calls' = Append(calls, Call("analyze_data", df, ""))
    /\ pc' = "main_83"
    /\ UNCHANGED <<attempts, waits, data, df, workbook, body, wbAtCycle, repAtCycle>>

\* lines 52-53 raise, or the report file cannot be opened or written; nothing
\* in analyze_data or main catches it, so main ends
analyze_data_raises ==
    /\ pc = "main_80"
    /\ \E exc \in {"KeyError", "OSError"} :
         /\ \/ exc = "KeyError" /\ ~ExtremaDefined(df) /\ report' = report
            \/ exc = "OSError" /\ ExtremaDefined(df) /\ report' \in {report, EmptyReport}
         /\ console' = Append(console, Line("traceback", exc))
         /\ calls' = Append(calls, Call("analyze_data", df, exc))
    /\ pc' = "terminated"
    /\ UNCHANGED <<attempts, waits, data, df, workbook, body, wbAtCycle, repAtCycle>>

----------------------------------------------------------------------------
(* main: the wait between cycles *)

\* lines 83-84, then back to line 74; data and df are not read again before
\* they are assigned
main_wait ==
    /\ pc = "main_83"
    /\ console' = Append(console, Line("waiting", ""))
    /\ data' = <<>>
    /\ df' = EmptyFrame
    /\ pc' = "main_75"
    /\ UNCHANGED <<attempts, waits, workbook, report, calls, body, wbAtCycle, repAtCycle>>

Next ==
    \/ main_begin_cycle
    \/ \E payload \in Payloads : fetch_returns(payload)
    \/ \E e \in RequestFailures : fetch_fails(e)
    \/ fetch_gives_up
    \/ main_process
    \/ main_skip
    \/ update_excel_writes
    \/ update_excel_locked
    \/ update_excel_other_failure
    \/ analyze_data_returns
    \/ analyze_data_raises
    \/ main_wait

Spec == Init /\ [][Next]_vars

----------------------------------------------------------------------------
(* Properties *)

Failed == Count(console, "error_fetching")

GaveUp == Count(console, "failed_after_3") > 0

Returned == pc \in {"main_77", "main_79", "main_80", "main_83", "terminated"}

Downstream == {"process_data", "update_excel", "analyze_data"}

CallIndex(fn) == CHOOSE i \in 1..Len(calls) : calls[i].fn = fn

TheCall(fn) == calls[CallIndex(fn)]

OtherSheets(wb) == SelectSeq(wb.sheets, LAMBDA sh : sh.name # "Live Data")

LiveSheets(wb) == SelectSeq(wb.sheets, LAMBDA sh : sh.name = "Live Data")

SixColumns ==
    <<"name", "symbol", "current_price", "market_cap", "total_volume",
      "price_change_percentage_24h">>

\* the sheet holds the header and the rows of the table, nothing else
HoldsExactly(cells, frame) ==
    /\ Len(cells) = 1 + Len(frame.rows)
    /\ cells[1] = [j \in 1..6 |-> <<SixColumns[j]>>]
    /\ \A i \in 1..Len(frame.rows) :
         cells[i + 1] = [j \in 1..6 |-> frame.rows[i][SixColumns[j]]]

\* C1: when a call of fetch_crypto_data returns the body of a successful
\* response after N failed attempts, N is at most 2, the call made exactly
\* N + 1 requests and N backoff waits, and what it returned is that body.
C1_RetryThenSuccess ==
    (Returned /\ body # Missing) =>
        /\ Failed \in 0..2
        /\ attempts = Failed + 1
        /\ waits = Failed
        /\ waits <= 2
        /\ data = body[1]

C1_Witness ==
    /\ pc = "main_77"
    /\ body # Missing
    /\ Failed = 2
    /\ Len(data) > 0

\* C2: a call of fetch_crypto_data gives up exactly when 3 attempts have
\* failed; it then has made exactly 3 requests and returns the empty list,
\* the cycle calls none of process_data, update_excel, analyze_data, and the
\* workbook and the report file stay as they were when the cycle began.
C2_Exhaustion ==
    /\ (Failed = 3 /\ pc # "fetch_19") => GaveUp
    /\ GaveUp =>
        /\ Failed = 3
        /\ attempts = 3
        /\ body = Missing
        /\ data = <<>>
        /\ pc \in {"main_77", "main_83", "main_75"}
        /\ \A i \in 1..Len(calls) : calls[i].fn \notin Downstream
        /\ workbook = wbAtCycle
        /\ report = repAtCycle

C2_Witness ==
    /\ GaveUp
    /\ pc = "main_75"
    /\ Count(console, "waiting") = 1
    /\ workbook.kind = "xlsx"
    /\ report.kind = "text"

\* C3: no failure ever terminates the scheduling loop: main never ends.
C3_LoopNeverEnds == pc # "terminated"

\* C4: when the write in update_excel raises PermissionError, update_excel
\* returns to main (line 80 is next), the lock warning was printed once, and
\* the workbook is as it was before the call.
C4_LockedFile ==
    (Called("update_excel") /\ TheCall("update_excel").exc = "PermissionError") =>
        /\ ~Called("analyze_data") => pc = "main_80"
        /\ Count(console, "excel_file_is_open") = 1
        /\ Count(console, "error_updating") = 0
        /\ workbook = wbAtCycle

C4_Witness ==
    /\ pc = "main_80"
    /\ TheCall("update_excel").exc = "PermissionError"
    /\ workbook.kind = "xlsx"

\* C5: after a successful update_excel the workbook has one "Live Data" sheet
\* that holds exactly the table passed to that call, the other sheets are
\* those the workbook had before the call, unchanged and in the same order,
\* and when there was no file "Live Data" is the only sheet.
C5_SheetReplaced ==
    (Called("update_excel") /\ TheCall("update_excel").exc = "") =>
        /\ workbook.kind = "xlsx"
        /\ Len(LiveSheets(workbook)) = 1
        /\ HoldsExactly(LiveSheets(workbook)[1].cells, TheCall("update_excel").arg)
        /\ OtherSheets(workbook) = OtherSheets(wbAtCycle)
        /\ wbAtCycle.kind = "absent" => Len(workbook.sheets) = 1

\* a second successful write in succession, with a different table, into a
\* workbook that has another sheet
C5_Witness ==
    /\ pc = "main_80"
    /\ TheCall("update_excel").exc = ""
    /\ Len(OtherSheets(wbAtCycle)) = 1
    /\ Len(LiveSheets(wbAtCycle)) = 1
    /\ LiveSheets(wbAtCycle)[1] # StaleSheet
    /\ LiveSheets(wbAtCycle)[1] # LiveSheets(workbook)[1]

\* a first write where there was no file
C5_WitnessNewFile ==
    /\ pc = "main_80"
    /\ TheCall("update_excel").exc = ""
    /\ wbAtCycle.kind = "absent"

\* C6 as amended: the table process_data makes has exactly the six columns
\* name, symbol, current_price, market_cap, total_volume,
\* price_change_percentage_24h in that order, one row per raw record in the
\* same order, each row holding the record's value of every column the
\* record has and a missing value for every column it lacks.
C6_Projection ==
    Called("process_data") =>
        LET raw   == TheCall("process_data").arg
            table == IF pc = "main_79" THEN df ELSE TheCall("update_excel").arg
        IN  /\ table.columns = SixColumns
            /\ Len(table.rows) = Len(raw)
            /\ \A i \in 1..Len(raw) :
                 /\ DOMAIN table.rows[i] = { SixColumns[j] : j \in 1..6 }
                 /\ \A j \in 1..6 :
                      table.rows[i][SixColumns[j]] =
                          IF SixColumns[j] \in DOMAIN raw[i]
                          THEN raw[i][SixColumns[j]] ELSE <<>>

\* two records, the first without the 24h change
C6_Witness ==
    /\ pc = "main_79"
    /\ Len(data) = 2
    /\ "price_change_percentage_24h" \notin DOMAIN data[1]
    /\ "price_change_percentage_24h" \in DOMAIN data[2]
    /\ df.rows[1]["price_change_percentage_24h"] = <<>>

\* C6 as first stated: the table has exactly five columns.
C6_FiveColumns ==
    Called("process_data") => (pc = "main_79" => Len(df.columns) = 5)

\* C7: every call of update_excel prints the "Excel updated" line exactly
\* once, as the last thing it prints; after a caught failure the line that
\* precedes it is that failure's message.
C7_ConfirmationAlways ==
    /\ Count(console, "excel_updated") = (IF Called("update_excel") THEN 1 ELSE 0)
    /\ pc = "main_80" =>
        LET n   == Len(console)
            exc == TheCall("update_excel").exc
        IN  /\ console[n][1] = "excel_updated"
            /\ exc = "PermissionError" => console[n - 1][1] = "excel_file_is_open"
            /\ exc \notin {"", "PermissionError"} => console[n - 1] = <<"error_updating", exc>>
            /\ exc = "" => console[n - 1][1] \notin {"excel_file_is_open", "error_updating"}

C7_Witness ==
    /\ pc = "main_80"
    /\ TheCall("update_excel").exc = "OSError"
    /\ workbook.kind = "corrupt"

\* C8: in a cycle whose fetch returned data and whose workbook write failed,
\* once the cycle is over update_excel and analyze_data have been called in
\* that order with the same table, analyze_data has finished and the report
\* file holds the report of that table.
C8_WriteFailureContinues ==
    (/\ Called("update_excel")
     /\ TheCall("update_excel").exc # ""
     /\ pc \in {"main_83", "main_75", "terminated"}) =>
        /\ Called("analyze_data")
        /\ CallIndex("update_excel") < CallIndex("analyze_data")
        /\ TheCall("analyze_data").arg = TheCall("update_excel").arg
        /\ TheCall("analyze_data").exc = ""
        /\ report = ReportOf(TheCall("analyze_data").arg)

\* C9: update_excel and analyze_data are only ever called with a table of at
\* least one row; when fetch_crypto_data returned an empty list, from giving
\* up or from a successful response, the cycle prints the skip line, calls
\* nothing downstream and leaves both files alone.
C9_NonEmptyTable ==
    /\ \A i \in 1..Len(calls) :
         calls[i].fn \in {"update_excel", "analyze_data"} => Len(calls[i].arg.rows) >= 1
    /\ (pc \in {"main_83", "main_75"} /\ Len(calls) > 0 /\ (GaveUp \/ body = <<<<>>>>)) =>
        /\ Count(console, "skipping") = 1
        /\ \A i \in 1..Len(calls) : calls[i].fn \notin Downstream
        /\ workbook = wbAtCycle
        /\ report = repAtCycle

\* a successful response that carries an empty list
C9_Witness ==
    /\ pc = "main_83"
    /\ body = <<<<>>>>
    /\ Count(console, "skipping") = 1

\* C10: within a call of fetch_crypto_data the number of backoff waits made
\* equals the number of failed attempts, and a call that gave up has waited
\* 3 times.
C10_WaitPerFailure ==
    /\ waits = Failed
    /\ GaveUp => waits = 3

C10_Witness ==
    /\ GaveUp
    /\ pc = "main_77"
    /\ waits = 3

====
